---- MODULE Spec2Model ----
(***************************************************************************)
(* Cardinal: the IR containers (cardinal_codegen: entities, instruction,   *)
(* instbuilder, function, module) and the C emitter (cardinal_c: CBackend).*)
(*                                                                         *)
(* Text is modelled by TLA+ strings, concatenated with \o exactly where    *)
(* the Rust code concatenates or formats.  A computation that can panic    *)
(* yields a record [err, text]: err = "none" and the text on success, the  *)
(* kind of failure and no text otherwise.                                  *)
(***************************************************************************)
EXTENDS Integers, Sequences, FiniteSets, TLC

(***************************************************************************)
(* Bounds of the model.                                                    *)
(***************************************************************************)
MaxCalls == 3
MaxBlocks == 2
MaxFuncs == 2
MaxEmits == 2
MaxImports == 2
MaxVars == 2
MaxSetCalls == 4
MaxTreeCalls == 6

(***************************************************************************)
(* Results of computations that may panic.                                 *)
(***************************************************************************)
Ok(t) == [err |-> "none", text |-> t]

Fail(e) == [err |-> e, text |-> ""]

IsOk(r) == r.err = "none"

\* a[i] of a Vec, 0-based, as Rust indexes it
At(vec, i) == vec[i + 1]

\* [T]::join(sep) of a vector of strings
RECURSIVE join(_, _)
join(v, sep) ==
    IF Len(v) = 0 THEN ""
    ELSE IF Len(v) = 1 THEN v[1]
    ELSE v[1] \o sep \o join(Tail(v), sep)

\* the concatenation l + sep + r of two renderings, the left one evaluated
\* first: the first failure is the failure of the whole
Cat(l, sep, r) ==
    IF ~IsOk(l) THEN l
    ELSE IF ~IsOk(r) THEN r
    ELSE Ok(l.text \o sep \o r.text)

(***************************************************************************)
(* entities.rs                                                             *)
(***************************************************************************)
Plain == [kind |-> "Plain", n |-> 0]

Pointer == [kind |-> "Pointer", n |-> 0]

Array(n) == [kind |-> "Array", n |-> n]

AbiType(name, shape) == [name |-> name, shape |-> shape]

AbiParam(name, type) == [name |-> name, type |-> type]

Basic(n) == [kind |-> "Basic", s |-> n, v |-> 0]

Static(n) == [kind |-> "Static", s |-> n, v |-> 0]

PointerProp(n) == [kind |-> "Pointer", s |-> n, v |-> 0]

Index(val) == [kind |-> "Index", s |-> "", v |-> val]

Named_new(name) == [name |-> name, properties |-> << >>]

Named_new_props(name, properties) == [name |-> name, properties |-> properties]

\* Variable::named
Variable_named(var) == Named_new(var)

\* ValueInfo: one record shape for every variant; only the field of the
\* variant's payload is meaningful
NoInst == [opcode |-> "", arguments |-> << >>]

ValueInfo(tag, n, s, named, inst) ==
    [tag |-> tag, n |-> n, s |-> s, named |-> named, inst |-> inst]

IntegerConstant(n) == ValueInfo("IntegerConstant", n, "", Named_new(""), NoInst)

BooleanConstant(b) ==
    ValueInfo("BooleanConstant", IF b THEN 1 ELSE 0, "", Named_new(""), NoInst)

StringConstant(s) == ValueInfo("StringConstant", 0, s, Named_new(""), NoInst)

NamedValue(named) == ValueInfo("Named", 0, "", named, NoInst)

BlockValue(b) == ValueInfo("Block", b, "", Named_new(""), NoInst)

InstructionValue(inst) == ValueInfo("Instruction", 0, "", Named_new(""), inst)

(***************************************************************************)
(* instruction.rs                                                          *)
(***************************************************************************)
InstructionInfo(opcode, arguments) == [opcode |-> opcode, arguments |-> arguments]

BinaryOpcodes ==
    {"Add", "Sub", "Mul", "Div", "Mod", "BitAnd", "BitOr", "BitXor", "BitLeft",
     "BitRight", "TestEq", "TestNeq", "TestGt", "TestGtEq", "TestLt",
     "TestLtEq", "Or", "And"}

UnaryOpcodes == {"BitNot", "Not"}

Opcode == BinaryOpcodes \cup UnaryOpcodes \cup {"Jmp", "Set", "Call", "Ret"}

\* Function::create_block's literal: an empty basic block
InstBlock == [values |-> << >>, insts |-> << >>, imports |-> << >>]

\* require_import pushing the name whether or not the list has it
require_import_always_push(block, name) == [block EXCEPT !.imports = Append(@, name)]

\* InstBlock::require_import
require_import(block, name) ==
    IF \E i \in 1..Len(block.imports) : block.imports[i] = name
    THEN block
    ELSE [block EXCEPT !.imports = Append(@, name)]

\* create_value taking the handle after the push
create_value_handle_after_push(block) == Len(block.values) + 1

\* InstBlock::create_value: the handle it returns
create_value_handle(block) == Len(block.values)

\* create_value putting the new entry in front of the table
create_value_in_front(block, value) == [block EXCEPT !.values = <<value>> \o @]

\* InstBlock::create_value: the block afterwards
create_value(block, value) == [block EXCEPT !.values = Append(@, value)]

\* InstBlock::create_inst
create_inst(block, inst) == [block EXCEPT !.insts = Append(@, inst)]

(***************************************************************************)
(* c/src/lib.rs: the C emitter.                                            *)
(*                                                                         *)
(* The renderers are mutually recursive.  `path` is the set of value       *)
(* handles whose rendering is in progress: the Rust code keeps no such     *)
(* set, and rendering is a function of the handle and the block alone, so  *)
(* a handle that is reached again while its own rendering is in progress   *)
(* recurses without end and the process dies of stack exhaustion.          *)
(***************************************************************************)
PanicBounds == "index out of bounds"

PanicStatic == "Static indexing isn't allowed with the C emitter."

StackOverflow == "stack overflow"

\* the operator text of the infix opcodes (lib.rs:32-91, 95-97)
InfixText(opcode) ==
    CASE opcode = "Add" -> " + "
      [] opcode = "Sub" -> " - "
      [] opcode = "Mul" -> " * "
      [] opcode = "Div" -> " / "
      [] opcode = "Mod" -> " % "
      [] opcode = "BitAnd" -> " & "
      [] opcode = "BitOr" -> " | "
      [] opcode = "BitXor" -> " ^ "
      [] opcode = "BitLeft" -> " << "
      [] opcode = "BitRight" -> " >> "
      [] opcode = "TestEq" -> " == "
      [] opcode = "TestNeq" -> " != "
      [] opcode = "TestGt" -> " > "
      [] opcode = "TestGtEq" -> " >= "
      [] opcode = "TestLt" -> " < "
      [] opcode = "TestLtEq" -> " <= "
      [] opcode = "Or" -> " || "
      [] opcode = "And" -> " && "
      [] opcode = "Set" -> " = "

\* the operator text of the prefix opcodes (lib.rs:56-58, 83-85)
PrefixText(opcode) ==
    CASE opcode = "BitNot" -> "~"
      [] opcode = "Not" -> "!"

\* a vector of texts under construction: [err, texts]
NoTexts == [err |-> "none", texts |-> << >>]

\* the vector `rest` with the rendering t pushed in front, t being evaluated
\* first: the first failure is the failure of the whole
PushText(t, rest) ==
    IF ~IsOk(t) THEN [err |-> t.err, texts |-> << >>]
    ELSE IF rest.err # "none" THEN rest
    ELSE [err |-> "none", texts |-> <<t.text>> \o rest.texts]

RECURSIVE display_instruction(_, _, _)
RECURSIVE display_value(_, _, _)
RECURSIVE display_properties(_, _, _, _)
RECURSIVE display_call_args(_, _, _, _)

\* self.display_value(inst.arguments[i], block): the index into the
\* argument vector panics when the instruction has no operand i
display_operand(inst, i, block, path) ==
    IF i >= Len(inst.arguments) THEN Fail(PanicBounds)
    ELSE display_value(At(inst.arguments, i), block, path)

\* the while loop of Opcode::Call from operand i on: the vector `args`
display_call_args(inst, i, block, path) ==
    IF i >= Len(inst.arguments) THEN NoTexts
    ELSE PushText(display_value(At(inst.arguments, i), block, path),
                  display_call_args(inst, i + 1, block, path))

\* display_call with the callee among the arguments: the loop started at 0
display_call_callee_as_argument(args, callee) ==
    IF args.err # "none" THEN Fail(args.err)
    ELSE Cat(callee, "",
             Ok("(" \o join(<<callee.text>> \o args.texts, ", ") \o ")"))

\* callee + "(" + &args.join(", ") + ")", the arguments rendered first
display_call(args, callee) ==
    IF args.err # "none" THEN Fail(args.err)
    ELSE Cat(callee, "", Ok("(" \o join(args.texts, ", ") \o ")"))

\* display_instruction rendering the right operand of an infix opcode first
display_instruction_right_first(inst, block, path) ==
    CASE inst.opcode \in BinaryOpcodes \cup {"Set"} ->
            Cat(display_operand(inst, 1, block, path), InfixText(inst.opcode),
                display_operand(inst, 0, block, path))
      [] inst.opcode \in UnaryOpcodes ->
            Cat(Ok(PrefixText(inst.opcode)), "",
                display_operand(inst, 0, block, path))
      [] inst.opcode = "Jmp" ->
            Cat(Ok("goto"), "", display_operand(inst, 0, block, path))
      [] inst.opcode = "Call" ->
            display_call(display_call_args(inst, 1, block, path),
                         display_operand(inst, 0, block, path))
      [] inst.opcode = "Ret" ->
            Cat(Ok("return "), "", display_operand(inst, 0, block, path))

display_instruction(inst, block, path) ==
    CASE inst.opcode \in BinaryOpcodes \cup {"Set"} ->
            Cat(display_operand(inst, 0, block, path), InfixText(inst.opcode),
                display_operand(inst, 1, block, path))
      [] inst.opcode \in UnaryOpcodes ->
            Cat(Ok(PrefixText(inst.opcode)), "",
                display_operand(inst, 0, block, path))
      [] inst.opcode = "Jmp" ->
            Cat(Ok("goto"), "", display_operand(inst, 0, block, path))
      [] inst.opcode = "Call" ->
            display_call(display_call_args(inst, 1, block, path),
                         display_operand(inst, 0, block, path))
      [] inst.opcode = "Ret" ->
            Cat(Ok("return "), "", display_operand(inst, 0, block, path))

\* display_property with the Static arm rendering `::name` (the lines the
\* source has commented out) instead of panicking
display_property_static_rendered(item, block, path) ==
    CASE item.kind = "Basic" -> Ok("." \o item.s)
      [] item.kind = "Index" ->
            Cat(Ok("["), "", Cat(display_value(item.v, block, path), "", Ok("]")))
      [] item.kind = "Pointer" -> Ok("->" \o item.s)
      [] item.kind = "Static" -> Ok("::" \o item.s)

\* the text one property adds to the name
display_property(item, block, path) ==
    CASE item.kind = "Basic" -> Ok("." \o item.s)
      [] item.kind = "Index" ->
            Cat(Ok("["), "", Cat(display_value(item.v, block, path), "", Ok("]")))
      [] item.kind = "Pointer" -> Ok("->" \o item.s)
      [] item.kind = "Static" -> Fail(PanicStatic)

\* the loop of display_named from property i on: what each property pushes
\* onto `name`, left to right
display_properties(named, i, block, path) ==
    IF i > Len(named.properties) THEN NoTexts
    ELSE PushText(display_property(named.properties[i], block, path),
                  display_properties(named, i + 1, block, path))

\* `name` after the loop
display_named_text(name, props) ==
    IF props.err # "none" THEN Fail(props.err)
    ELSE Ok(name \o join(props.texts, ""))

display_named(named, block, path) ==
    display_named_text(named.name, display_properties(named, 1, block, path))

\* the match of display_value on the entry v of handle val
display_info(v, val, block, path) ==
    CASE v.tag = "Block" -> Ok("block" \o ToString(v.n))
      [] v.tag = "BooleanConstant" -> Ok(IF v.n = 1 THEN "true" ELSE "false")
      [] v.tag = "IntegerConstant" -> Ok(ToString(v.n))
      [] v.tag = "Instruction" ->
            display_instruction(v.inst, block, path \cup {val})
      [] v.tag = "Named" -> display_named(v.named, block, path \cup {val})
      [] v.tag = "StringConstant" -> Ok("\"" \o v.s \o "\"")

\* display_value rendering a handle outside the table as an empty text
display_value_unknown_empty(val, block, path) ==
    IF val \in path THEN Fail(StackOverflow)
    ELSE IF val >= Len(block.values) THEN Ok("")
    ELSE display_info(At(block.values, val), val, block, path)

display_value(val, block, path) ==
    IF val \in path THEN Fail(StackOverflow)
    ELSE IF val >= Len(block.values) THEN Fail(PanicBounds)
    ELSE display_info(At(block.values, val), val, block, path)

display_abitype(abitype) ==
    CASE abitype.shape.kind = "Plain" -> abitype.name
      [] abitype.shape.kind = "Array" ->
            IF abitype.shape.n > -1
            THEN abitype.name \o "[]"
            ELSE abitype.name \o "[" \o ToString(abitype.shape.n) \o "]"
      [] abitype.shape.kind = "Pointer" -> abitype.name \o "*"

(***************************************************************************)
(* function.rs, module.rs                                                  *)
(*                                                                         *)
(* A HashMap is modelled by the sequence of its entries in iteration       *)
(* order: the order is fixed while the map is not modified, and an         *)
(* insertion of a new key may leave the entries in any order.              *)
(***************************************************************************)
\* FunctionSignature::new
FunctionSignature_new == [arguments |-> << >>, returns |-> AbiType("void", Plain)]

\* Function::new
Function_new(name, sig) ==
    [name |-> name, signature |-> sig, variables |-> << >>, blocks |-> << >>]

\* the entries of `map` with entry `e` added in some place and the others
\* in some order
Reorderings(map, e) ==
    LET n == Len(map) + 1
        all == Append(map, e)
    IN  { [i \in 1..n |-> all[p[i]]] :
            p \in { q \in [1..n -> 1..n] : \A i, j \in 1..n : q[i] = q[j] => i = j } }

\* HashMap::insert(key, value) on a map of records with a `name` key: the
\* maps that can result
HashMap_insert(map, e) ==
    IF \E i \in 1..Len(map) : map[i].name = e.name
    THEN { [i \in 1..Len(map) |-> IF map[i].name = e.name THEN e ELSE map[i]] }
    ELSE Reorderings(map, e)

(***************************************************************************)
(* c/src/lib.rs: compile_function and emit                                 *)
(***************************************************************************)
RECURSIVE display_insts(_, _)
RECURSIVE display_values(_, _)
\* the values of the block from handle h on, each rendered as a statement
display_values(block, h) ==
    IF h >= Len(block.values) THEN NoTexts
    ELSE PushText(display_value(h, block, {}), display_values(block, h + 1))

\* display_insts rendering every value of the table after the statements
display_insts_then_values(block, i) ==
    IF i >= Len(block.insts) THEN display_values(block, 0)
    ELSE PushText(display_instruction(At(block.insts, i), block, {}),
                  display_insts(block, i + 1))

\* the inner loop of compile_function over block.insts from index i on: the
\* vector `block` of statement texts
display_insts(block, i) ==
    IF i >= Len(block.insts) THEN NoTexts
    ELSE PushText(display_instruction(At(block.insts, i), block, {}),
                  display_insts(block, i + 1))

\* what the loop body of compile_function pushes onto `insts` for block i
block_text(i, block) ==
    IF block.err # "none" THEN Fail(block.err)
    ELSE Ok("block" \o ToString(i) \o ": {\n" \o join(block.texts, ";\n")
                \o ";\n}\n")

\* the vectors `insts` and `imports` with block v's text and imports in front
PushBlock(text, v, rest) ==
    IF ~IsOk(text) THEN [err |-> text.err, insts |-> << >>, imports |-> << >>]
    ELSE IF rest.err # "none" THEN rest
    ELSE [err |-> "none", insts |-> <<text.text>> \o rest.insts,
          imports |-> v.imports \o rest.imports]

RECURSIVE compile_blocks(_, _)
\* the outer loop of compile_function over func.blocks from index i on: the
\* vectors `insts` (one text per block) and `imports`
compile_blocks(func, i) ==
    IF i >= Len(func.blocks)
    THEN [err |-> "none", insts |-> << >>, imports |-> << >>]
    ELSE PushBlock(block_text(i, display_insts(At(func.blocks, i), 0)),
                   At(func.blocks, i), compile_blocks(func, i + 1))

\* the vector `args` of compile_function
header_args(func) ==
    [i \in 1..Len(func.signature.arguments) |->
        display_abitype(func.signature.arguments[i].type) \o " "
            \o func.signature.arguments[i].name]

\* the text of the signature: `header` before any body is added
function_header(func) ==
    display_abitype(func.signature.returns) \o " " \o func.name
        \o "(" \o join(header_args(func), ", ") \o ")"

\* the vector `vars` of compile_function
function_vars(func) ==
    [i \in 1..Len(func.variables) |->
        display_abitype(func.variables[i].type) \o " " \o func.variables[i].name]

\* function_body with the declarations of the variables after the blocks
function_body_vars_last(header, vars, body) ==
    IF body.err # "none" THEN [err |-> body.err, text |-> "", imports |-> << >>]
    ELSE [err |-> "none",
          text |-> header \o " {\n" \o join(body.insts, "\n")
                     \o join(vars, ";\n")
                     \o (IF Len(vars) > 0 THEN ";\n" ELSE "")
                     \o "}",
          imports |-> body.imports]

\* the else branch of compile_function, given the header, vars and the blocks
function_body(header, vars, body) ==
    IF body.err # "none" THEN [err |-> body.err, text |-> "", imports |-> << >>]
    ELSE [err |-> "none",
          text |-> header \o " {\n" \o join(vars, ";\n")
                     \o (IF Len(vars) > 0 THEN ";\n" ELSE "")
                     \o join(body.insts, "\n") \o "}",
          imports |-> body.imports]

\* compile_function without the early return for a function of no blocks
compile_function_always_body(func) ==
    function_body(function_header(func), function_vars(func),
                  compile_blocks(func, 0))

\* CBackend::compile_function: [err, text, imports]
compile_function(func) ==
    IF Len(func.blocks) = 0
    THEN [err |-> "none", text |-> function_header(func), imports |-> << >>]
    ELSE function_body(function_header(func), function_vars(func),
                       compile_blocks(func, 0))

\* the first loop of emit over module.functions: the vector `f` and
\* self.imports (`imps` before the loop) after the functions before entry i
\* were compiled with the results `done`.  A panic leaves self.imports as
\* the functions before it made it.
RECURSIVE emit_functions(_, _, _, _)
RECURSIVE emit_function(_, _, _, _, _)
emit_functions(functions, i, imps, f) ==
    IF i > Len(functions) THEN [err |-> "none", f |-> f, imports |-> imps]
    ELSE emit_function(functions, i, imps, f, compile_function(functions[i]))

\* the body of that loop for entry i, res being compile_function's result
emit_function(functions, i, imps, f, res) ==
    IF res.err # "none" THEN [err |-> res.err, f |-> << >>, imports |-> imps]
    ELSE emit_functions(functions, i + 1, imps \o res.imports, Append(f, res.text))

\* the vector `includes` of emit
emit_includes(imps) == [i \in 1..Len(imps) |-> "#include <" \o imps[i] \o ">"]

\* emit_text with an empty line between the includes and the definitions
emit_text_blank_line(loop) ==
    IF loop.err # "none"
    THEN [err |-> loop.err, text |-> "", imports |-> loop.imports]
    ELSE [err |-> "none",
          text |-> join(emit_includes(loop.imports), "\n") \o "\n\n"
                     \o join(loop.f, "\n"),
          imports |-> loop.imports]

\* the text emit builds after its first loop
emit_text(loop) ==
    IF loop.err # "none"
    THEN [err |-> loop.err, text |-> "", imports |-> loop.imports]
    ELSE [err |-> "none",
          text |-> join(emit_includes(loop.imports), "\n") \o "\n"
                     \o join(loop.f, "\n"),
          imports |-> loop.imports]

\* CBackend::emit on a backend whose self.imports is `imps`:
\* [err, text, imports], imports being self.imports afterwards
emit(functions, imps) == emit_text(emit_functions(functions, 1, imps, << >>))

(***************************************************************************)
(* The state: a front-end builds one Function at a time, defines it in     *)
(* the Module, hands the Module to a CBackend and calls emit.              *)
(***************************************************************************)
VARIABLES
    module,     \* Module.functions, in iteration order
    func,       \* the Function under construction: << >> or <<Function>>
    log,        \* per block of func: the Builder calls made and what each returned
    phase,      \* "build", "emit" (a CBackend owns the module), "aborted"
    imports,    \* CBackend.imports
    emitted,    \* what each call of emit returned: [err, text]
    budget      \* how many Builder calls the front-end makes on one function at most

vars == <<module, func, log, phase, imports, emitted, budget>>

\* the return value of a Builder call that returns nothing
NoValue == -1

Init ==
    /\ module = << >>
    /\ func = << >>
    /\ log = << >>
    /\ phase = "build"
    /\ imports = << >>
    /\ emitted = << >>
    /\ budget = MaxCalls

RECURSIVE SumLen(_)
SumLen(seqs) == IF seqs = << >> THEN 0 ELSE Len(Head(seqs)) + SumLen(Tail(seqs))

\* Function::use_block(Block(b)) succeeds, and the session may go on
Building(b) ==
    /\ phase = "build"
    /\ Len(func) = 1
    /\ b < Len(func[1].blocks)
    /\ SumLen(log) < budget

\* a Builder method whose body is create_value(value): returns the handle
PushValue(b, op, value) ==
    /\ func' = [func EXCEPT ![1].blocks[b + 1] = create_value(@, value)]
    /\ log' = [log EXCEPT ![b + 1] =
                 Append(@, [op |-> op, ret |-> create_value_handle(func[1].blocks[b + 1])])]
    /\ UNCHANGED <<budget, module, phase, imports, emitted>>

\* a Builder method whose body is create_inst(inst): returns nothing
PushInst(b, op, inst) ==
    /\ func' = [func EXCEPT ![1].blocks[b + 1] = create_inst(@, inst)]
    /\ log' = [log EXCEPT ![b + 1] = Append(@, [op |-> op, ret |-> NoValue])]
    /\ UNCHANGED <<budget, module, phase, imports, emitted>>

iconst_int(b, value) ==
    /\ Building(b)
    /\ PushValue(b, "iconst_int", IntegerConstant(value))

iconst_bool(b, value) ==
    /\ Building(b)
    /\ PushValue(b, "iconst_bool", BooleanConstant(value))

iconst_str(b, value) ==
    /\ Building(b)
    /\ PushValue(b, "iconst_str", StringConstant(value))

iconst_named(b, name) ==
    /\ Building(b)
    /\ PushValue(b, "iconst_named", NamedValue(Named_new(name)))

iconst_named_props(b, name, props) ==
    /\ Building(b)
    /\ PushValue(b, "iconst_named_props", NamedValue(Named_new_props(name, props)))

iuse(b, named) ==
    /\ Building(b)
    /\ PushValue(b, "iuse", NamedValue(named))

\* iadd, isub, imul, idiv, imod, ibit_and, ibit_or, ibit_xor, ibit_left,
\* ibit_right, itest_eq, itest_neq, itest_gt, itest_gt_eq, itest_lt,
\* itest_lt_eq, ior, iand: the same body but for the opcode
ibinary(b, opcode, l, r) ==
    /\ Building(b)
    /\ opcode \in BinaryOpcodes
    /\ PushValue(b, "ibinary", InstructionValue(InstructionInfo(opcode, <<l, r>>)))

\* ibit_not, inot
iunary(b, opcode, l) ==
    /\ Building(b)
    /\ opcode \in UnaryOpcodes
    /\ PushValue(b, "iunary", InstructionValue(InstructionInfo(opcode, <<l>>)))

icall(b, k, args) ==
    /\ Building(b)
    /\ PushValue(b, "icall", InstructionValue(InstructionInfo("Call", <<k>> \o args)))

jmp(b, block) ==
    /\ Building(b)
    /\ LET h == create_value_handle(func[1].blocks[b + 1])
       IN  func' = [func EXCEPT ![1].blocks[b + 1] =
                      create_inst(create_value(@, BlockValue(block)),
                                  InstructionInfo("Jmp", <<h>>))]
    /\ log' = [log EXCEPT ![b + 1] = Append(@, [op |-> "jmp", ret |-> NoValue])]
    /\ UNCHANGED <<budget, module, phase, imports, emitted>>

set(b, k, v) ==
    /\ Building(b)
    /\ PushInst(b, "set", InstructionInfo("Set", <<k, v>>))

call(b, k, args) ==
    /\ Building(b)
    /\ PushInst(b, "call", InstructionInfo("Call", <<k>> \o args))

return_(b, v) ==
    /\ Building(b)
    /\ PushInst(b, "return_", InstructionInfo("Ret", <<v>>))

return_none(b) ==
    /\ Building(b)
    /\ PushInst(b, "return_none", InstructionInfo("Ret", << >>))

\* InstBlock::require_import through the Builder
RequireImport(b, name) ==
    /\ phase = "build"
    /\ Len(func) = 1
    /\ b < Len(func[1].blocks)
    /\ Len(func[1].blocks[b + 1].imports) < MaxImports
    /\ func' = [func EXCEPT ![1].blocks[b + 1] = require_import(@, name)]
    /\ UNCHANGED <<budget, module, log, phase, imports, emitted>>

\* a Builder method whose body begins with require_import(name): it returns
\* no value handle
Requested(b, op, arg, name) ==
    /\ func' = [func EXCEPT ![1].blocks[b + 1] = require_import(@, name)]
    /\ log' = [log EXCEPT ![b + 1] =
                 Append(@, [op |-> op, ret |-> NoValue, arg |-> arg])]
    /\ UNCHANGED <<budget, module, phase, imports, emitted>>

\* InstBuilder::require_import called by the front-end, the call recorded
require_import_call(b, name) ==
    /\ Building(b)
    /\ Requested(b, "require_import", name, name)

ctype_bool(b) ==
    /\ Building(b)
    /\ Requested(b, "ctype_bool", "", "stdbool.h")

\* ctype_uint8, ctype_uint16, ctype_uint32, ctype_uint64, ctype_usize,
\* ctype_int8, ctype_int16, ctype_int32, ctype_int64, ctype_isize: the same
\* body but for the type they return
StdintCtypes ==
    {"ctype_uint8", "ctype_uint16", "ctype_uint32", "ctype_uint64", "ctype_usize",
     "ctype_int8", "ctype_int16", "ctype_int32", "ctype_int64", "ctype_isize"}

ctype_stdint(b, op) ==
    /\ Building(b)
    /\ op \in StdintCtypes
    /\ Requested(b, op, "", "stdint.h")

ctype_char(b) ==
    /\ Building(b)
    /\ log' = [log EXCEPT ![b + 1] =
                 Append(@, [op |-> "ctype_char", ret |-> NoValue, arg |-> ""])]
    /\ UNCHANGED <<budget, module, func, phase, imports, emitted>>

\* Function::new(name, sig): the front-end starts a function; it builds
\* each function once
NewFunction(name, sig) ==
    /\ phase = "build"
    /\ func = << >>
    /\ Len(module) < MaxFuncs
    /\ \A i \in 1..Len(module) : module[i].name # name
    /\ func' = <<Function_new(name, sig)>>
    /\ log' = << >>
    /\ UNCHANGED <<budget, module, phase, imports, emitted>>

\* Function::declare_var
declare_var(name, var_type) ==
    /\ phase = "build"
    /\ Len(func) = 1
    /\ Len(func[1].variables) < MaxVars
    /\ \E m \in HashMap_insert(func[1].variables, [name |-> name, type |-> var_type]) :
          func' = [func EXCEPT ![1].variables = m]
    /\ UNCHANGED <<budget, module, log, phase, imports, emitted>>

\* Function::create_block
create_block ==
    /\ phase = "build"
    /\ Len(func) = 1
    /\ Len(func[1].blocks) < MaxBlocks
    /\ func' = [func EXCEPT ![1].blocks = Append(@, InstBlock)]
    /\ log' = Append(log, << >>)
    /\ UNCHANGED <<budget, module, phase, imports, emitted>>

\* Module::define_function: the function under construction moves into the
\* module
define_function ==
    /\ phase = "build"
    /\ Len(func) = 1
    /\ module' \in HashMap_insert(module, func[1])
    /\ func' = << >>
    /\ log' = << >>
    /\ UNCHANGED <<budget, phase, imports, emitted>>

\* Module::declare_function
declare_function(name) ==
    /\ phase = "build"
    /\ func = << >>
    /\ Len(module) < MaxFuncs
    /\ module' \in HashMap_insert(module, Function_new(name, FunctionSignature_new))
    /\ UNCHANGED <<budget, func, log, phase, imports, emitted>>

\* CBackend::new(module)
CBackend_new ==
    /\ phase = "build"
    /\ func = << >>
    /\ phase' = "emit"
    /\ imports' = << >>
    /\ UNCHANGED <<budget, module, func, log, emitted>>

\* emit moving the import lists out of the blocks (Vec::append on
\* v.imports itself, not on its clone)
Emit_draining_blocks ==
    /\ phase = "emit"
    /\ Len(emitted) < MaxEmits
    /\ emitted' = Append(emitted, [err |-> emit(module, imports).err,
                                    text |-> emit(module, imports).text])
    /\ imports' = emit(module, imports).imports
    /\ phase' = IF emitted'[Len(emitted')].err = "none" THEN "emit" ELSE "aborted"
    /\ module' = [f \in 1..Len(module) |->
                    [module[f] EXCEPT !.blocks =
                        [b \in 1..Len(@) |-> [@[b] EXCEPT !.imports = << >>]]]]
    /\ UNCHANGED <<budget, func, log>>

\* CBackend::emit
Emit ==
    /\ phase = "emit"
    /\ Len(emitted) < MaxEmits
    /\ emitted' = Append(emitted, [err |-> emit(module, imports).err,
                                    text |-> emit(module, imports).text])
    /\ imports' = emit(module, imports).imports
    /\ phase' = IF emitted'[Len(emitted')].err = "none" THEN "emit" ELSE "aborted"
    /\ UNCHANGED <<budget, module, func, log>>

(***************************************************************************)
(* Spec: one function of up to MaxBlocks blocks, built by every kind of    *)
(* Builder call, then emitted.                                             *)
(***************************************************************************)
Blocks == 0..(MaxBlocks - 1)

Handles == 0..1

Next ==
    \/ NewFunction("main", FunctionSignature_new)
    \/ create_block
    \/ \E b \in Blocks : iconst_int(b, 21)
    \/ \E b \in Blocks : iuse(b, Named_new("f"))
    \/ \E b \in Blocks : ibinary(b, "Add", 0, 1)
    \/ \E b \in Blocks : icall(b, 0, << >>)
    \/ \E b \in Blocks, t \in Blocks : jmp(b, t)
    \/ \E b \in Blocks : set(b, 0, 1)
    \/ \E b \in Blocks : call(b, 0, << >>)
    \/ \E b \in Blocks, v \in Handles : return_(b, v)
    \/ \E b \in Blocks : return_none(b)
    \/ define_function
    \/ CBackend_new
    \/ Emit

Spec == Init /\ [][Next]_vars

(***************************************************************************)
(* SpecExpr: one block built from named references with property chains,   *)
(* nested instructions and calls, then emitted.                            *)
(***************************************************************************)
\* the property chains of the named references built
PropChains ==
    { <<Static("m")>>, <<Index(1)>>, <<Basic("x"), Static("m"), PointerProp("q")>> }

\* the argument lists of the calls built
ArgLists == { << >>, <<0>>, <<1, 0>> }

NextExpr ==
    \/ NewFunction("main", FunctionSignature_new)
    \/ create_block
    \/ iconst_int(0, 21)
    \/ iuse(0, Named_new("f"))
    \/ \E props \in PropChains : iconst_named_props(0, "a", props)
    \/ \E l \in Handles, r \in Handles : ibinary(0, "Add", l, r)
    \/ \E args \in ArgLists : icall(0, 0, args)
    \/ \E args \in ArgLists : call(0, 0, args)
    \/ \E v \in 0..2 : return_(0, v)
    \/ define_function
    \/ CBackend_new
    \/ Emit

SpecExpr == Init /\ [][NextExpr]_vars

(***************************************************************************)
(* SpecImports: up to MaxFuncs functions of up to MaxBlocks blocks whose   *)
(* Builders request imports, emitted up to MaxEmits times.                 *)
(***************************************************************************)
ImportNames == {"a.h", "b.h"}

NextImports ==
    \/ \E name \in {"f", "g"} : NewFunction(name, FunctionSignature_new)
    \/ create_block
    \/ \E b \in Blocks, name \in ImportNames : RequireImport(b, name)
    \/ define_function
    \/ CBackend_new
    \/ Emit

SpecImports == Init /\ [][NextImports]_vars

(***************************************************************************)
(* SpecTypes: a function with a signature and declared variables of every  *)
(* shape of ABI type, with or without blocks, beside a declared function.  *)
(***************************************************************************)
Types ==
    { AbiType("int", Plain), AbiType("char", Pointer), AbiType("int", Array(-1)),
      AbiType("int", Array(0)), AbiType("int", Array(2)) }

Signatures ==
    { [arguments |-> args, returns |-> t] :
        t \in Types,
        args \in { << >>,
                   <<AbiParam("a", AbiType("int", Array(2)))>>,
                   <<AbiParam("a", AbiType("char", Pointer)),
                     AbiParam("b", AbiType("int", Array(-1)))>> } }

NextTypes ==
    \/ \E sig \in Signatures : NewFunction("main", sig)
    \/ \E name \in {"v", "w"}, t \in Types : declare_var(name, t)
    \/ create_block
    \/ declare_function("g")
    \/ define_function
    \/ CBackend_new
    \/ Emit

SpecTypes == Init /\ [][NextTypes]_vars

(***************************************************************************)
(* SpecSet: one block of up to MaxSetCalls Builder calls that build        *)
(* constants, a reference to a variable, binary instructions over them and *)
(* assignments, then emitted.                                              *)
(***************************************************************************)
InitSet ==
    /\ module = << >>
    /\ func = << >>
    /\ log = << >>
    /\ phase = "build"
    /\ imports = << >>
    /\ emitted = << >>
    /\ budget = MaxSetCalls

NextSet ==
    \/ NewFunction("main", FunctionSignature_new)
    \/ create_block
    \/ iconst_int(0, 21)
    \/ iuse(0, Variable_named("v"))
    \/ \E opcode \in {"Add", "TestLtEq"}, l \in Handles : ibinary(0, opcode, l, 1)
    \/ \E k \in Handles, v \in 1..2 : set(0, k, v)
    \/ define_function
    \/ CBackend_new
    \/ Emit

SpecSet == InitSet /\ [][NextSet]_vars

(***************************************************************************)
(* SpecBody: a function with declared variables and up to MaxBlocks        *)
(* blocks of jumps, references, calls and an import, then emitted.         *)
(***************************************************************************)
NextBody ==
    \/ NewFunction("main", FunctionSignature_new)
    \/ \E name \in {"v", "w"} : declare_var(name, AbiType("int", Plain))
    \/ create_block
    \/ \E b \in Blocks : jmp(b, 0)
    \/ \E b \in Blocks : iuse(b, Named_new("f"))
    \/ \E b \in Blocks : call(b, 0, << >>)
    \/ \E b \in Blocks : RequireImport(b, "stdio.h")
    \/ define_function
    \/ CBackend_new
    \/ Emit

SpecBody == Init /\ [][NextBody]_vars

(***************************************************************************)
(* SpecCtype: one block of up to MaxSetCalls calls that request imports,   *)
(* by name or through the ctype_* constructors, then emitted.              *)
(***************************************************************************)
NextCtype ==
    \/ NewFunction("main", FunctionSignature_new)
    \/ create_block
    \/ \E name \in {"stdio.h", "stdint.h"} : require_import_call(0, name)
    \/ ctype_bool(0)
    \/ \E op \in {"ctype_uint8", "ctype_isize"} : ctype_stdint(0, op)
    \/ ctype_char(0)
    \/ define_function
    \/ CBackend_new
    \/ Emit

SpecCtype == InitSet /\ [][NextCtype]_vars

(***************************************************************************)
(* SpecTree: one block of up to MaxTreeCalls calls that build a constant,  *)
(* subtractions nested to the left and to the right, and the statements    *)
(* that return them, then emitted.                                         *)
(***************************************************************************)
InitTree ==
    /\ module = << >>
    /\ func = << >>
    /\ log = << >>
    /\ phase = "build"
    /\ imports = << >>
    /\ emitted = << >>
    /\ budget = MaxTreeCalls

NextTree ==
    \/ NewFunction("main", FunctionSignature_new)
    \/ create_block
    \/ iconst_int(0, 21)
    \/ \E l \in Handles, r \in Handles : ibinary(0, "Sub", l, r)
    \/ \E v \in 2..3 : return_(0, v)
    \/ define_function
    \/ CBackend_new
    \/ Emit

SpecTree == InitTree /\ [][NextTree]_vars

(***************************************************************************)
(* Helpers of the properties.                                              *)
(***************************************************************************)
\* the Builder calls that push onto the value table
ValueOps ==
    {"iconst_int", "iconst_bool", "iconst_str", "iconst_named",
     "iconst_named_props", "iuse", "ibinary", "iunary", "icall", "jmp"}

\* how many of the first n calls logged in l pushed a value
ValuesPushed(l, n) == Cardinality({j \in 1..n : l[j].op \in ValueOps})

\* the handles the calls logged in l returned, in the order of the calls
RECURSIVE Returned(_)
Returned(l) ==
    IF l = << >> THEN << >>
    ELSE IF Head(l).ret = NoValue THEN Returned(Tail(l))
    ELSE <<Head(l).ret>> \o Returned(Tail(l))

\* text t occurs in text s
Contains(s, t) ==
    \E i \in 1..(Len(s) - Len(t) + 1) : SubSeq(s, i, i + Len(t) - 1) = t

\* the number of places of s where text t occurs
Occurrences(s, t) ==
    Cardinality({i \in 1..(Len(s) - Len(t) + 1) : SubSeq(s, i, i + Len(t) - 1) = t})

\* the blocks under construction, as indices into func[1].blocks
BuiltBlocks == IF Len(func) = 1 THEN 1..Len(func[1].blocks) ELSE {}

(***************************************************************************)
(* C1 as stated: after n Builder calls against a Block its value table has *)
(* n entries, and the handles returned are 0, 1, 2, ... in the order of    *)
(* issuance.  Violated: set, call, return_ and return_none push no value,  *)
(* and jmp pushes a value whose handle it does not return.                 *)
(***************************************************************************)
C1_OneEntryPerCall ==
    \A b \in BuiltBlocks :
        /\ Len(func[1].blocks[b].values) = Len(log[b])
        /\ \A k \in 1..Len(Returned(log[b])) : Returned(log[b])[k] = k - 1

(***************************************************************************)
(* C1 amended: the value table of a Block has one entry per call of a      *)
(* value-creating operation (the constants, the arithmetic and comparison  *)
(* operations, iuse, icall, and jmp, which pushes its target), none for    *)
(* set, call, return_ and return_none; and every handle returned is the    *)
(* number of values pushed before its call, the index of its own entry.    *)
(***************************************************************************)
C1_OneEntryPerValueCall ==
    \A b \in BuiltBlocks :
        /\ Len(func[1].blocks[b].values) = ValuesPushed(log[b], Len(log[b]))
        /\ \A i \in 1..Len(log[b]) :
              log[b][i].ret # NoValue =>
                  /\ log[b][i].ret = ValuesPushed(log[b], i - 1)
                  /\ log[b][i].ret < Len(func[1].blocks[b].values)

\* a block built by a jmp, then a statement, then a value-returning call
\* whose handle is 1
C1_Witness ==
    \E b \in BuiltBlocks :
        /\ Len(log[b]) = 3
        /\ log[b][1].op = "jmp"
        /\ log[b][2].op \in {"set", "call", "return_", "return_none"}
        /\ log[b][3].ret = 1
        /\ Len(func[1].blocks[b].values) = 2

\* the statements of the module: <<f, b, k>> is statement k of block b of
\* function f, all counted from 1
Statements ==
    { <<f, b, k>> \in (1..Len(module)) \X (1..MaxBlocks + 1) \X (1..budget) :
        /\ b <= Len(module[f].blocks)
        /\ k <= Len(module[f].blocks[b].insts) }

StatementBlock(st) == module[st[1]].blocks[st[2]]

Statement(st) == module[st[1]].blocks[st[2]].insts[st[3]]

\* the text of a statement as compile_function renders it
StatementText(st) == display_instruction(Statement(st), StatementBlock(st), {})

(***************************************************************************)
(* C5: a Ret statement built by return_(v) renders as `return <value>`, a  *)
(* Ret statement built by return_none() renders as the bare text `return`, *)
(* and emitting a module whose only statements are return_none statements  *)
(* completes.  Violated by the code: the Ret arm of display_instruction    *)
(* indexes operand 0 of a statement that has none.                         *)
(***************************************************************************)
C5_ReturnNoneRendersBare ==
    \A i \in 1..Len(emitted) :
        /\ \A st \in Statements :
              Statement(st).opcode = "Ret" =>
                  IF Statement(st).arguments = << >>
                  THEN StatementText(st) = Ok("return")
                  ELSE LET v == display_value(Statement(st).arguments[1],
                                              StatementBlock(st), {})
                       IN  IsOk(v) => StatementText(st) = Ok("return " \o v.text)
        /\ (\A st \in Statements : Statement(st) = InstructionInfo("Ret", << >>))
              => emitted[i].err = "none"

(***************************************************************************)
(* C6: a jmp(b) statement, b a block created in the same function, renders *)
(* as `goto blockN`, N the index of b, and `blockN` is the label the       *)
(* emitter prints for that block.  Violated by the code: the Jmp arm       *)
(* concatenates "goto" and the target with nothing between.                *)
(***************************************************************************)
C6_GotoNamesLabel ==
    \A i \in 1..Len(emitted) :
        \A st \in Statements :
            LET inst == Statement(st)
                block == StatementBlock(st)
            IN  (/\ inst.opcode = "Jmp"
                 /\ inst.arguments[1] < Len(block.values)
                 /\ At(block.values, inst.arguments[1]).tag = "Block"
                 /\ At(block.values, inst.arguments[1]).n < Len(module[st[1]].blocks))
                => LET N == At(block.values, inst.arguments[1]).n
                   IN  /\ StatementText(st) = Ok("goto block" \o ToString(N))
                       /\ emitted[i].err = "none" =>
                             Contains(emitted[i].text, "block" \o ToString(N) \o ": {")

\* the handles a value of a block refers to: the operands of an instruction,
\* the index accessors of a named reference
Operands(block, h) ==
    IF h >= Len(block.values) THEN {}
    ELSE LET v == At(block.values, h)
         IN  IF v.tag = "Instruction"
             THEN {v.inst.arguments[j] : j \in 1..Len(v.inst.arguments)}
             ELSE IF v.tag = "Named"
             THEN {v.named.properties[j].v :
                     j \in {q \in 1..Len(v.named.properties) :
                              v.named.properties[q].kind = "Index"}}
             ELSE {}

\* the handles reachable from the handles S through operands and index
\* accessors
RECURSIVE Reachable(_, _)
Reachable(block, S) ==
    LET T == S \cup UNION {Operands(block, h) : h \in S}
    IN  IF T = S THEN S ELSE Reachable(block, T)

\* handle h of the block is a named reference with a static-scope accessor
HasStatic(block, h) ==
    /\ h < Len(block.values)
    /\ At(block.values, h).tag = "Named"
    /\ \E j \in 1..Len(At(block.values, h).named.properties) :
          At(block.values, h).named.properties[j].kind = "Static"

\* the handles a statement reaches
StatementReach(st) ==
    Reachable(StatementBlock(st),
              {Statement(st).arguments[j] : j \in 1..Len(Statement(st).arguments)})

\* some statement of the module reaches a named reference with a
\* static-scope accessor
StaticReached ==
    \E st \in Statements : \E h \in StatementReach(st) : HasStatic(StatementBlock(st), h)

(***************************************************************************)
(* C4: when a statement of the module reaches, directly or through         *)
(* operands and index accessors, a Named reference with a static-scope     *)
(* accessor in its property chain, every emit fails as a whole: it returns *)
(* no text, partial or with the accessor dropped or replaced.              *)
(***************************************************************************)
C4_StaticAbortsEmit ==
    StaticReached =>
        \A i \in 1..Len(emitted) : emitted[i].err # "none" /\ emitted[i].text = ""

\* an emit that panicked on a static accessor which no statement has as a
\* direct operand: it is reached through an operand or an index accessor
C4_Witness ==
    /\ Len(emitted) > 0
    /\ emitted[1].err = PanicStatic
    /\ StaticReached
    /\ \A st \in Statements :
          \A j \in 1..Len(Statement(st).arguments) :
              ~HasStatic(StatementBlock(st), Statement(st).arguments[j])

\* the texts t1, ..., tk separated by ", ", built from the right
RECURSIVE CommaList(_)
CommaList(ts) ==
    IF ts = << >> THEN ""
    ELSE IF Len(ts) = 1 THEN ts[1]
    ELSE CommaList(SubSeq(ts, 1, Len(ts) - 1)) \o ", " \o ts[Len(ts)]

\* every operand of the instruction renders
OperandsRender(inst, block) ==
    \A j \in 1..Len(inst.arguments) : IsOk(display_value(inst.arguments[j], block, {}))

\* `f(a1, ..., ak)` for a Call instruction whose operands render
CallText(inst, block) ==
    display_value(inst.arguments[1], block, {}).text \o "("
        \o CommaList([j \in 1..(Len(inst.arguments) - 1) |->
                        display_value(inst.arguments[j + 1], block, {}).text])
        \o ")"

(***************************************************************************)
(* C10: call(f, [a1..ak]) renders as `f(a1, ..., ak)`, operand 0 the       *)
(* callee and the arguments in call order, for k = 0, 1, 2; an icall of    *)
(* the same operands renders to the same text where its handle is used as  *)
(* an operand; and the emitted text has the call statement in it.          *)
(***************************************************************************)
C10_CallRendersCalleeAndArguments ==
    \A st \in Statements :
        LET inst == Statement(st)
            block == StatementBlock(st)
        IN  /\ (inst.opcode = "Call" /\ OperandsRender(inst, block)) =>
                  /\ StatementText(st) = Ok(CallText(inst, block))
                  /\ \A i \in 1..Len(emitted) :
                        emitted[i].err = "none" =>
                            Contains(emitted[i].text, CallText(inst, block) \o ";\n")
            /\ \A h \in 0..(Len(block.values) - 1) :
                  LET v == At(block.values, h)
                  IN  (/\ v.tag = "Instruction"
                       /\ v.inst.opcode = "Call"
                       /\ OperandsRender(v.inst, block))
                      => /\ display_value(h, block, {}) = Ok(CallText(v.inst, block))
                         /\ inst = InstructionInfo("Ret", <<h>>) =>
                               StatementText(st) = Ok("return " \o CallText(v.inst, block))

\* an emitted module with a call of two arguments, or one that returns the
\* value of an icall of one argument
C10_Witness ==
    /\ Len(emitted) > 0
    /\ emitted[1].err = "none"
    /\ \/ \E st \in Statements :
             /\ Statement(st) = InstructionInfo("Call", <<0, 1, 0>>)
             /\ StatementText(st) = Ok("f(21, f)")
             /\ Contains(emitted[1].text, "f(21, f);")
       \/ \E st \in Statements :
             /\ Statement(st) = InstructionInfo("Ret", <<1>>)
             /\ At(StatementBlock(st).values, 1).inst = InstructionInfo("Call", <<0, 0>>)
             /\ Contains(emitted[1].text, "return f(f);")

\* the import requests of the blocks from block b of function f on, in
\* function-then-block order, f and b counted from 1
RECURSIVE RequestsFrom(_, _)
RequestsFrom(f, b) ==
    IF f > Len(module) THEN << >>
    ELSE IF b > Len(module[f].blocks) THEN RequestsFrom(f + 1, 1)
    ELSE module[f].blocks[b].imports \o RequestsFrom(f, b + 1)

Requests == RequestsFrom(1, 1)

\* the places of the text s where text t starts
Positions(s, t) ==
    {i \in 1..(Len(s) - Len(t) + 1) : SubSeq(s, i, i + Len(t) - 1) = t}

\* the place of the first request of name n
FirstRequest(n) == CHOOSE i \in 1..Len(Requests) :
                      /\ Requests[i] = n
                      /\ \A j \in 1..(i - 1) : Requests[j] # n

IncludeLine(n) == "#include <" \o n \o ">"

(***************************************************************************)
(* C2: two consecutive emit calls on the same CBackend return the same     *)
(* text.  Violated by the code: emit appends to self.imports and never     *)
(* clears it, so the second text has every include twice.                  *)
(***************************************************************************)
C2_EmitTwiceIdentical ==
    Len(emitted) >= 2 => emitted[2] = emitted[1]

(***************************************************************************)
(* C3: for an import name requested from several blocks or functions, the  *)
(* text of a backend's first emit has exactly one `#include <name>` line,  *)
(* and the lines stand in the order of the first requests.  Violated by    *)
(* the code: compile_function and emit append the import lists of the      *)
(* blocks without looking for duplicates.                                  *)
(***************************************************************************)
C3_OneIncludePerName ==
    (Len(emitted) > 0 /\ emitted[1].err = "none") =>
        \A j \in 1..Len(Requests) :
            /\ Occurrences(emitted[1].text, IncludeLine(Requests[j])) = 1
            /\ \A k \in 1..Len(Requests) :
                  FirstRequest(Requests[j]) < FirstRequest(Requests[k]) =>
                      \A p \in Positions(emitted[1].text, IncludeLine(Requests[j])),
                         q \in Positions(emitted[1].text, IncludeLine(Requests[k])) :
                          p < q

\* every line of ls ended by a newline
RECURSIVE Unlines(_)
Unlines(ls) == IF ls = << >> THEN "" ELSE Head(ls) \o "\n" \o Unlines(Tail(ls))

\* the lines of ls with a newline between two of them
Separated(ls) ==
    IF ls = << >> THEN ""
    ELSE Unlines(SubSeq(ls, 1, Len(ls) - 1)) \o ls[Len(ls)]

\* the list l, n times
RECURSIVE Repeat(_, _)
Repeat(l, n) == IF n = 0 THEN << >> ELSE l \o Repeat(l, n - 1)

\* the rendered definitions of the functions of the module
Definitions == [i \in 1..Len(module) |-> compile_function(module[i]).text]

\* the last emit returned a text
LastEmitOk == Len(emitted) > 0 /\ emitted[Len(emitted)].err = "none"

(***************************************************************************)
(* C8 as stated: the text is the include lines, a blank line, then the     *)
(* definitions separated by newlines.  Violated: after the last include    *)
(* comes one newline, so no blank line stands before the definitions       *)
(* unless there is no include at all.                                      *)
(***************************************************************************)
C8_BlankLineAfterIncludes ==
    LastEmitOk =>
        emitted[Len(emitted)].text =
            Unlines(emit_includes(imports)) \o "\n" \o Separated(Definitions)

(***************************************************************************)
(* C8 amended: the text is one `#include <name>` line, ended by a newline, *)
(* per entry of the CBackend's import list (every request of every block,  *)
(* in function-then-block order, once per emit call so far), or a single   *)
(* empty line when that list is empty, followed directly by the rendered   *)
(* definitions, one per function in module iteration order, with a newline *)
(* between two of them.                                                    *)
(***************************************************************************)
C8_IncludesThenDefinitions ==
    LastEmitOk =>
        /\ imports = Repeat(Requests, Len(emitted))
        /\ emitted[Len(emitted)].text =
              (IF imports = << >> THEN "\n"
               ELSE Unlines([i \in 1..Len(imports) |-> IncludeLine(imports[i])]))
                  \o Separated(Definitions)

\* an emit of two functions with imports, and one of a module without
C8_Witness ==
    /\ Len(emitted) = 1
    /\ emitted[1].err = "none"
    /\ Len(module) = 2
    /\ Len(imports) >= 2
    /\ Contains(emitted[1].text, ">\nvoid ")

\* the types of the signatures and variables of the module
ModuleTypes ==
    UNION { {module[f].signature.returns}
              \cup {module[f].signature.arguments[j].type :
                      j \in 1..Len(module[f].signature.arguments)}
              \cup {module[f].variables[j].type : j \in 1..Len(module[f].variables)}
            : f \in 1..Len(module) }

\* the rendering of an ABI type C7 states
AbiText(t) ==
    CASE t.shape.kind = "Plain" -> t.name
      [] t.shape.kind = "Pointer" -> t.name \o "*"
      [] t.shape.kind = "Array" /\ t.shape.n >= 0 ->
            t.name \o "[" \o ToString(t.shape.n) \o "]"
      [] t.shape.kind = "Array" /\ t.shape.n = -1 -> t.name \o "[]"

(***************************************************************************)
(* C7: an ABI type renders as `<name>` when plain, `<name>*` when a        *)
(* pointer, `<name>[N]` when an array of explicit size N >= 0 and          *)
(* `<name>[]` when an array of the implicit size -1; the emitted text has  *)
(* the return type of each function rendered so.  Violated by the code:    *)
(* the test of display_abitype on the size is inverted.                    *)
(***************************************************************************)
C7_AbiTypeRendering ==
    \A i \in 1..Len(emitted) :
        /\ \A t \in ModuleTypes : display_abitype(t) = AbiText(t)
        /\ emitted[i].err = "none" =>
              \A f \in 1..Len(module) :
                  Contains(emitted[i].text,
                           AbiText(module[f].signature.returns) \o " "
                               \o module[f].name \o "(")

\* `<return-type> <name>(<arg-type> <arg-name>, ...)`, the types as the
\* emitter renders types
SignatureText(f) ==
    display_abitype(f.signature.returns) \o " " \o f.name \o "("
        \o CommaList([j \in 1..Len(f.signature.arguments) |->
                        display_abitype(f.signature.arguments[j].type) \o " "
                            \o f.signature.arguments[j].name])
        \o ")"

(***************************************************************************)
(* C9: a function of no blocks renders as its signature text and no more,  *)
(* without brace, semicolon or declared variable, and contributes no       *)
(* import, whatever variables were declared on it; a module of such        *)
(* functions emits as an empty line and the signatures.                    *)
(***************************************************************************)
C9_PrototypeOnly ==
    /\ \A f \in 1..Len(module) :
          Len(module[f].blocks) = 0 =>
              /\ compile_function(module[f]) =
                    [err |-> "none", text |-> SignatureText(module[f]),
                     imports |-> << >>]
              /\ \A c \in {"{", "}", ";"} :
                    ~Contains(compile_function(module[f]).text, c)
    /\ \A i \in 1..Len(emitted) :
          (\A f \in 1..Len(module) : Len(module[f].blocks) = 0) =>
              /\ emitted[i].err = "none"
              /\ emitted[i].text =
                    "\n" \o Separated([f \in 1..Len(module) |-> SignatureText(module[f])])

\* an emitted function of no blocks with an argument and declared variables
C9_Witness ==
    /\ Len(emitted) > 0
    /\ \E f \in 1..Len(module) :
          /\ Len(module[f].blocks) = 0
          /\ Len(module[f].variables) = 2
          /\ Len(module[f].signature.arguments) = 2
          /\ Contains(emitted[1].text, module[f].name \o "(char* a, ")

\* the operator texts of the opcode table the specification fixes for the
\* binary opcodes
OperatorTable(opcode) ==
    CASE opcode = "Add" -> "+"
      [] opcode = "Sub" -> "-"
      [] opcode = "Mul" -> "*"
      [] opcode = "Div" -> "/"
      [] opcode = "Mod" -> "%"
      [] opcode = "BitAnd" -> "&"
      [] opcode = "BitOr" -> "|"
      [] opcode = "BitXor" -> "^"
      [] opcode = "BitLeft" -> "<<"
      [] opcode = "BitRight" -> ">>"
      [] opcode = "TestEq" -> "=="
      [] opcode = "TestNeq" -> "!="
      [] opcode = "TestGt" -> ">"
      [] opcode = "TestGtEq" -> ">="
      [] opcode = "TestLt" -> "<"
      [] opcode = "TestLtEq" -> "<="
      [] opcode = "Or" -> "||"
      [] opcode = "And" -> "&&"

\* handle h of the block is a binary instruction value
IsBinary(block, h) ==
    /\ h < Len(block.values)
    /\ At(block.values, h).tag = "Instruction"
    /\ At(block.values, h).inst.opcode \in BinaryOpcodes

\* the text of handle h, which renders
TextOf(block, h) == display_value(h, block, {}).text

(***************************************************************************)
(* C11: a set(k, v) statement whose operands render renders as             *)
(* `<k> = <v>`, each side the rendering of its operand; when v is a binary *)
(* instruction value its side is `<l> <op> <r>`, op the operator of the    *)
(* opcode table and l, r the operands in left-to-right order; the emitted  *)
(* text has the statement in it; and set(iuse(v), iadd(iconst_int(21),     *)
(* iconst_int(21))) renders as `v = 21 + 21`.                              *)
(***************************************************************************)
C11_SetRendersAssignment ==
    \A st \in Statements :
        LET inst == Statement(st)
            block == StatementBlock(st)
        IN  (inst.opcode = "Set" /\ OperandsRender(inst, block)) =>
              /\ StatementText(st) =
                    Ok(TextOf(block, inst.arguments[1]) \o " = "
                         \o TextOf(block, inst.arguments[2]))
              /\ IsBinary(block, inst.arguments[2]) =>
                    LET rhs == At(block.values, inst.arguments[2]).inst
                    IN  TextOf(block, inst.arguments[2]) =
                            TextOf(block, rhs.arguments[1]) \o " "
                                \o OperatorTable(rhs.opcode) \o " "
                                \o TextOf(block, rhs.arguments[2])
              /\ (/\ At(block.values, inst.arguments[1]) = NamedValue(Variable_named("v"))
                  /\ IsBinary(block, inst.arguments[2])
                  /\ At(block.values, inst.arguments[2]).inst.opcode = "Add"
                  /\ \A j \in 1..2 :
                        At(block.values,
                           At(block.values, inst.arguments[2]).inst.arguments[j])
                            = IntegerConstant(21))
                  => StatementText(st) = Ok("v = 21 + 21")
              /\ \A i \in 1..Len(emitted) :
                    emitted[i].err = "none" =>
                        Contains(emitted[i].text, StatementText(st).text \o ";\n")

\* an emitted block whose one statement assigns 21 + 21 to v
C11_Witness ==
    /\ Len(emitted) > 0
    /\ emitted[1].err = "none"
    /\ Contains(emitted[1].text, "block0: {\nv = 21 + 21;\n}")

\* the sequence s is the beginning of the sequence t
IsPrefix(s, t) == Len(s) <= Len(t) /\ SubSeq(t, 1, Len(s)) = s

(***************************************************************************)
(* C12: construction is append-only.  A step on the function under         *)
(* construction (a Builder call on one of its blocks, create_block,        *)
(* declare_var) keeps every block at its index, and every entry of each    *)
(* block's value table and instruction list at its index: the tables only  *)
(* grow at the end, so a handle returned earlier denotes the same entry.   *)
(***************************************************************************)
C12_AppendOnly ==
    [][(Len(func) = 1 /\ Len(func') = 1) =>
          /\ Len(func[1].blocks) <= Len(func'[1].blocks)
          /\ \A b \in 1..Len(func[1].blocks) :
                /\ IsPrefix(func[1].blocks[b].values, func'[1].blocks[b].values)
                /\ IsPrefix(func[1].blocks[b].insts, func'[1].blocks[b].insts)
                /\ IsPrefix(log[b], log'[b])
                /\ \A i \in 1..Len(log[b]) :
                      log[b][i].ret # NoValue =>
                          At(func'[1].blocks[b].values, log[b][i].ret)
                              = At(func[1].blocks[b].values, log[b][i].ret)]_vars

\* a function with a declared variable and two blocks, the first with two
\* values and a statement, the second with a value: every kind of step was
\* taken with entries already in the tables
C12_Witness ==
    /\ Len(func) = 1
    /\ Len(func[1].variables) >= 1
    /\ Len(func[1].blocks) = 2
    /\ Len(func[1].blocks[1].values) = 2
    /\ Len(func[1].blocks[1].insts) = 1
    /\ Len(func[1].blocks[2].values) = 1

(***************************************************************************)
(* C13: emission never mutates the Module.  A step in which emit returns   *)
(* (with a text or by aborting) leaves every function of the module, with  *)
(* its blocks, their value tables, instruction lists and import lists, and *)
(* its variable map, as it was before the call.                            *)
(***************************************************************************)
C13_EmitLeavesModule ==
    [][Len(emitted') > Len(emitted) => module' = module /\ func' = func]_vars

\* a module emitted twice whose function has a declared variable and a
\* block with a value, a statement and an import
C13_Witness ==
    /\ Len(emitted) = 2
    /\ emitted[2].err = "none"
    /\ \E f \in 1..Len(module) :
          /\ Len(module[f].variables) >= 1
          /\ \E b \in 1..Len(module[f].blocks) :
                /\ Len(module[f].blocks[b].values) >= 1
                /\ Len(module[f].blocks[b].insts) >= 1
                /\ Len(module[f].blocks[b].imports) >= 1

(***************************************************************************)
(* C14: emission terminates.  For every module built by Builder calls the  *)
(* Builder accepted, emit finishes: the rendering of a value through the   *)
(* operands of instructions and the index accessors never comes back to a  *)
(* value whose rendering is in progress.  Violated by the code: the        *)
(* Builder accepts an operand handle that is the handle of the instruction *)
(* value being created, or of a later one, and display_value follows it    *)
(* without end.                                                            *)
(***************************************************************************)
C14_EmitTerminates ==
    \A i \in 1..Len(emitted) : emitted[i].err # StackOverflow

\* some statement of the module reaches a handle outside the value table
\* of its block
OutOfRangeReached ==
    \E st \in Statements :
        \E h \in StatementReach(st) : h >= Len(StatementBlock(st).values)

Used(block) ==
    Reachable(block,
              UNION { {block.insts[k].arguments[j] : j \in 1..Len(block.insts[k].arguments)}
                      : k \in 1..Len(block.insts) })

\* a value that aborts the emit when it is rendered
Poison == NamedValue(Named_new_props("poison", <<Static("m")>>))

\* the function with every value no statement reaches replaced by Poison
Poisoned(f) ==
    [f EXCEPT !.blocks =
        [b \in 1..Len(@) |->
            [@[b] EXCEPT !.values =
                [h \in 1..Len(@) |->
                    IF (h - 1) \in Used(f.blocks[b]) THEN @[h] ELSE Poison]]]]

\* handle h of the block is an icall value no statement reaches
UnusedCall(block, h) ==
    /\ h < Len(block.values)
    /\ h \notin Used(block)
    /\ At(block.values, h).tag = "Instruction"
    /\ At(block.values, h).inst.opcode = "Call"

(***************************************************************************)
(* C16: a value contributes to the output only if a statement of its block *)
(* reaches it through operands and index accessors.  What compile_function *)
(* and the first emit return is what they return for the module in which   *)
(* every value no statement reaches is replaced by a value that aborts the *)
(* emit when rendered: an unused value, an unused icall among them, adds   *)
(* no text and cannot make the emit fail.                                  *)
(***************************************************************************)
C16_UnusedValuesSilent ==
    /\ \A f \in 1..Len(module) :
          compile_function(Poisoned(module[f])) = compile_function(module[f])
    /\ Len(emitted) > 0 =>
          /\ emitted[1].err = emit([f \in 1..Len(module) |-> Poisoned(module[f])], << >>).err
          /\ emitted[1].text = emit([f \in 1..Len(module) |-> Poisoned(module[f])], << >>).text

\* an emit that returned a text for a block with an icall no statement
\* reaches and whose own rendering would abort, the text having only the
\* statement in the block
C16_Witness ==
    /\ Len(emitted) > 0
    /\ emitted[1].err = "none"
    /\ \E st \in Statements : \E h \in 0..budget :
          /\ UnusedCall(StatementBlock(st), h)
          /\ ~IsOk(display_value(h, StatementBlock(st), {}))
          /\ Contains(emitted[1].text, "block0: {\nreturn f;\n}")

\* the texts of ts one after the other, each followed by `end`
RECURSIVE EachEnded(_, _)
EachEnded(ts, end) ==
    IF ts = << >> THEN "" ELSE Head(ts) \o end \o EachEnded(Tail(ts), end)

\* the declaration of variable j of function f
Declaration(f, j) == display_abitype(f.variables[j].type) \o " " \o f.variables[j].name

\* block b of function f under its label: its statements in the order of
\* the instruction list, each ended by `;` (a block of no statement has a
\* lone `;`)
LabelledBlock(f, b) ==
    "block" \o ToString(b - 1) \o ": {\n"
        \o (IF f.blocks[b].insts = << >> THEN ";\n"
            ELSE EachEnded([k \in 1..Len(f.blocks[b].insts) |->
                              display_instruction(f.blocks[b].insts[k], f.blocks[b], {}).text],
                           ";\n"))
        \o "}\n"

(***************************************************************************)
(* C17: in a rendered function body the text follows construction order.   *)
(* The body of a function with blocks that renders is the signature and    *)
(* ` {`, then the declaration of every declared variable, each ended by    *)
(* `;`, then the blocks in creation order, labelled block0, block1, ... by *)
(* position and separated by a newline, each with its statements in the    *)
(* order the Builder calls appended them, each once, then `}`; and the     *)
(* text of every emit that returns has this body in it.                    *)
(***************************************************************************)
C17_BodyFollowsConstruction ==
    \A f \in 1..Len(module) :
        (Len(module[f].blocks) > 0 /\ compile_function(module[f]).err = "none") =>
            \A text \in {compile_function(module[f]).text} :
                /\ text =
                      SignatureText(module[f]) \o " {\n"
                          \o EachEnded([j \in 1..Len(module[f].variables) |->
                                          Declaration(module[f], j)], ";\n")
                          \o Separated([b \in 1..Len(module[f].blocks) |->
                                          LabelledBlock(module[f], b)])
                          \o "}"
                /\ \A i \in 1..Len(emitted) :
                      emitted[i].err = "none" => Contains(emitted[i].text, text)

\* an emitted function with two declared variables and two blocks, the
\* first of a call followed by a jump
C17_Witness ==
    /\ Len(emitted) > 0
    /\ emitted[1].err = "none"
    /\ \E f \in 1..Len(module) :
          /\ Len(module[f].variables) = 2
          /\ Len(module[f].blocks) = 2
          /\ Contains(emitted[1].text, ";\nblock0: {\nf();\ngotoblock0;\n}\n\nblock1: {\n")

\* the import names a logged call asks for: the argument of require_import,
\* the header of the type of a ctype_* call, none for ctype_char
NamesAsked(e) ==
    CASE e.op = "require_import" -> <<e.arg>>
      [] e.op = "ctype_bool" -> <<"stdbool.h">>
      [] e.op \in StdintCtypes -> <<"stdint.h">>
      [] OTHER -> << >>

\* the names the calls logged in l ask for, in the order of the calls
RECURSIVE Asked(_)
Asked(l) == IF l = << >> THEN << >> ELSE NamesAsked(Head(l)) \o Asked(Tail(l))

\* the names of ns, each at the place of its first occurrence
RECURSIVE FirstOccurrences(_, _)
FirstOccurrences(ns, seen) ==
    IF ns = << >> THEN << >>
    ELSE IF Head(ns) \in seen THEN FirstOccurrences(Tail(ns), seen)
    ELSE <<Head(ns)>> \o FirstOccurrences(Tail(ns), seen \cup {Head(ns)})

(***************************************************************************)
(* C18: after any sequence of require_import and ctype_* calls on a block  *)
(* its import list has each requested name once, in the order of the first *)
(* requests (stdbool.h for ctype_bool, stdint.h for the fixed-width and    *)
(* pointer-sized integer types); ctype_char adds nothing; and a step that  *)
(* requests a name the list has leaves the list as it was.                 *)
(***************************************************************************)
C18_ImportsOncePerName ==
    /\ [](\A b \in BuiltBlocks :
            func[1].blocks[b].imports = FirstOccurrences(Asked(log[b]), {}))
    /\ [][\A b \in BuiltBlocks :
            (/\ Len(func') = 1
             /\ Len(log'[b]) = Len(log[b]) + 1
             /\ \A j \in 1..Len(NamesAsked(log'[b][Len(log'[b])])) :
                   \E i \in 1..Len(func[1].blocks[b].imports) :
                       func[1].blocks[b].imports[i] = NamesAsked(log'[b][Len(log'[b])])[j])
            => func'[1].blocks[b].imports = func[1].blocks[b].imports]_vars

\* a block whose calls asked for stdint.h twice, through two constructors,
\* with a ctype_char and a request by name: two names in its list
C18_Witness ==
    \E b \in BuiltBlocks :
        /\ Len(log[b]) = 4
        /\ log[b][1].op = "ctype_uint8"
        /\ log[b][2].op = "ctype_char"
        /\ log[b][3].op = "require_import" /\ log[b][3].arg = "stdio.h"
        /\ log[b][4].op = "ctype_isize"
        /\ func[1].blocks[b].imports = <<"stdint.h", "stdio.h">>

\* the expression tree of handle h, which renders, written with every
\* binary instruction in parentheses: two handles have the same tree
\* exactly when these are equal
RECURSIVE Tree(_, _)
Tree(block, h) ==
    IF IsBinary(block, h)
    THEN "(" \o Tree(block, At(block.values, h).inst.arguments[1])
             \o " " \o At(block.values, h).inst.opcode \o " "
             \o Tree(block, At(block.values, h).inst.arguments[2]) \o ")"
    ELSE TextOf(block, h)

(***************************************************************************)
(* C19: rendering preserves expression structure.  Two statements of a     *)
(* block that return values built from the same literals and binary        *)
(* opcodes and that render to the same text return the same expression     *)
(* tree: trees that nest differently render differently.  Violated by the  *)
(* code: an instruction operand is rendered without parentheses, so        *)
(* isub(isub(a, b), c) and isub(a, isub(b, c)) both render `a - b - c`.    *)
(***************************************************************************)
C19_TextDeterminesTree ==
    \A s1 \in Statements : \A s2 \in Statements :
        (/\ s1[1] = s2[1] /\ s1[2] = s2[2]
         /\ Len(emitted) > 0
         /\ emitted[1].err = "none"
         /\ Statement(s1).opcode = "Ret" /\ Statement(s2).opcode = "Ret"
         /\ StatementText(s1) = StatementText(s2))
        => Tree(StatementBlock(s1), Statement(s1).arguments[1])
             = Tree(StatementBlock(s2), Statement(s2).arguments[1])

====
